---- MODULE Spec2Model ----
(***************************************************************************)
(* Model of utils/timers.py: the Square_Wave_Timer registry and its        *)
(* per-period _Single_Square_Wave_Timer, together with the two demo loops  *)
(* of the module's __main__ block.                                         *)
(*                                                                         *)
(* Times are integers counting ticks of 1/TicksPerSec seconds, so that     *)
(* every time the demos use (whole seconds, whole seconds +/- 0.01) and    *)
(* every half period is exact.  Periods are given in seconds, as in the    *)
(* source.  A Python value that may be None is a sequence: None is << >>   *)
(* and the number t is << t >>.                                            *)
(***************************************************************************)
EXTENDS Integers, Sequences, FiniteSets, TLC

VARIABLES
    timers,             \* Square_Wave_Timer._timers: period -> timer fields
    reg_curr_time_sec,  \* Square_Wave_Timer._curr_time_sec (None or a time)
    ret,                \* what the last call returned or raised
    hist,               \* per timer: creation time, number of state changes,
                        \* last edge times, and a stand-alone copy of it
    step,               \* fixed distance between updates (0: any of Steps)
    pc,                 \* __main__: position in the demo ("idle": no demo)
    time_sec,           \* __main__: loop variable time_sec
    small_offset,       \* __main__: loop variable small_offset, in ticks
    out,                \* __main__: the query values the demo's ifs tested
    pace,               \* per timer: largest and last distance between the
                        \* update times it has seen (None: not followed)
    recorder,           \* the Video_Recorder object's fields (None: no recorder)
    writes              \* what the caller of the recorder has seen of it

vars == << timers, reg_curr_time_sec, ret, hist, step, pc, time_sec,
          small_offset, out, pace, recorder, writes >>

(* ---------------------------------------------------------------- units *)

TicksPerSec == 100

None == << >>
Float(t) == << t >>
Num(x) == x[1]

(* ------------------------------------------------------------- bounds *)

\* Largest update time (in ticks) the free-running specifications reach.
MaxTime == 250

\* Most transitions of one timer the specifications follow (a timer whose
\* period is not positive can toggle on every update, without end).
MaxTransitions == 4

\* Largest update time (in ticks) the fixed-rate specification reaches.
MaxFixedTime == 500

\* Distances (in ticks) between two successive update times.
Steps == {0, 50, 150}

\* Fixed update distances (in ticks) of the fixed-rate specification.
FixedSteps == {25, 50, 100}

\* Periods (in seconds) the callers query.
Periods == {0 - 1, 0, 1, 2}

\* Periods (in seconds) queried under fixed-rate updates.
FixedPeriods == {1, 2}

(* ------------------------------------------- _Single_Square_Wave_Timer *)

Ok(self) == [exc |-> "none", self |-> self]
Raise(e, self) == [exc |-> e, self |-> self]

\* _set_next_toggle_time(curr_time_sec = None)
set_next_toggle_time(self, curr_time_sec) ==
    LET base == IF curr_time_sec = None THEN self.next_toggle_time
                                        ELSE curr_time_sec
    IN  IF base = None
        THEN Raise("TypeError", self)
        ELSE Ok([self EXCEPT !.next_toggle_time =
                                 Float(Num(base) + self.toggle_period_sec)])

\* update_timer with the comparison of line 71 written >= .
update_timer_ge(self, curr_time_sec) ==
    LET seeded == IF self.next_toggle_time = None
                  THEN set_next_toggle_time(self, curr_time_sec)
                  ELSE Ok(self)
    IN  IF seeded.exc # "none" THEN seeded
        ELSE
        LET cleared == [seeded.self EXCEPT !.is_rising = FALSE,
                                           !.is_falling = FALSE]
        IN  IF curr_time_sec = None THEN Raise("TypeError", cleared)
            ELSE
            LET changed_this_frame ==
                    Num(curr_time_sec) >= Num(cleared.next_toggle_time)
                toggled == [cleared EXCEPT
                               !.toggle_state = ~cleared.toggle_state,
                               !.is_rising = ~cleared.toggle_state,
                               !.is_falling = ~(~cleared.toggle_state)]
            IN  IF changed_this_frame
                THEN set_next_toggle_time(toggled, None)
                ELSE Ok(cleared)

\* update_timer without the reset of the edge flags of lines 69-70.
update_timer_keeps_flags(self, curr_time_sec) ==
    LET seeded == IF self.next_toggle_time = None
                  THEN set_next_toggle_time(self, curr_time_sec)
                  ELSE Ok(self)
    IN  IF seeded.exc # "none" THEN seeded
        ELSE
        LET cleared == seeded.self
        IN  IF curr_time_sec = None THEN Raise("TypeError", cleared)
            ELSE
            LET changed_this_frame ==
                    Num(curr_time_sec) > Num(cleared.next_toggle_time)
                toggled == [cleared EXCEPT
                               !.toggle_state = ~cleared.toggle_state,
                               !.is_rising = ~cleared.toggle_state,
                               !.is_falling = ~(~cleared.toggle_state)]
            IN  IF changed_this_frame
                THEN set_next_toggle_time(toggled, None)
                ELSE Ok(cleared)

\* update_timer scheduling the next toggle from the update time (line 76
\* passing curr_time_sec) instead of from the previous deadline.
update_timer_reanchor(self, curr_time_sec) ==
    LET seeded == IF self.next_toggle_time = None
                  THEN set_next_toggle_time(self, curr_time_sec)
                  ELSE Ok(self)
    IN  IF seeded.exc # "none" THEN seeded
        ELSE
        LET cleared == [seeded.self EXCEPT !.is_rising = FALSE,
                                           !.is_falling = FALSE]
        IN  IF curr_time_sec = None THEN Raise("TypeError", cleared)
            ELSE
            LET changed_this_frame ==
                    Num(curr_time_sec) > Num(cleared.next_toggle_time)
                toggled == [cleared EXCEPT
                               !.toggle_state = ~cleared.toggle_state,
                               !.is_rising = ~cleared.toggle_state,
                               !.is_falling = ~(~cleared.toggle_state)]
            IN  IF changed_this_frame
                THEN set_next_toggle_time(toggled, curr_time_sec)
                ELSE Ok(cleared)

\* update_timer without the call of line 76: the deadline stays where it was.
update_timer_no_reschedule(self, curr_time_sec) ==
    LET seeded == IF self.next_toggle_time = None
                  THEN set_next_toggle_time(self, curr_time_sec)
                  ELSE Ok(self)
    IN  IF seeded.exc # "none" THEN seeded
        ELSE
        LET cleared == [seeded.self EXCEPT !.is_rising = FALSE,
                                           !.is_falling = FALSE]
        IN  IF curr_time_sec = None THEN Raise("TypeError", cleared)
            ELSE
            LET changed_this_frame ==
                    Num(curr_time_sec) > Num(cleared.next_toggle_time)
                toggled == [cleared EXCEPT
                               !.toggle_state = ~cleared.toggle_state,
                               !.is_rising = ~cleared.toggle_state,
                               !.is_falling = ~(~cleared.toggle_state)]
            IN  IF changed_this_frame
                THEN Ok(toggled)
                ELSE Ok(cleared)

\* update_timer with line 73 written self._toggle_state = True and the
\* change detected from the state: it toggles once and stays high.
update_timer_one_shot(self, curr_time_sec) ==
    LET seeded == IF self.next_toggle_time = None
                  THEN set_next_toggle_time(self, curr_time_sec)
                  ELSE Ok(self)
    IN  IF seeded.exc # "none" THEN seeded
        ELSE
        LET cleared == [seeded.self EXCEPT !.is_rising = FALSE,
                                           !.is_falling = FALSE]
        IN  IF curr_time_sec = None THEN Raise("TypeError", cleared)
            ELSE
            LET changed_this_frame ==
                    Num(curr_time_sec) > Num(cleared.next_toggle_time)
                       /\ ~cleared.toggle_state
                toggled == [cleared EXCEPT
                               !.toggle_state = ~cleared.toggle_state,
                               !.is_rising = ~cleared.toggle_state,
                               !.is_falling = ~(~cleared.toggle_state)]
            IN  IF changed_this_frame
                THEN set_next_toggle_time(toggled, None)
                ELSE Ok(cleared)

\* update_timer(curr_time_sec)
update_timer(self, curr_time_sec) ==
    LET seeded == IF self.next_toggle_time = None
                  THEN set_next_toggle_time(self, curr_time_sec)
                  ELSE Ok(self)
    IN  IF seeded.exc # "none" THEN seeded
        ELSE
        LET cleared == [seeded.self EXCEPT !.is_rising = FALSE,
                                           !.is_falling = FALSE]
        IN  IF curr_time_sec = None THEN Raise("TypeError", cleared)
            ELSE
            LET changed_this_frame ==
                    Num(curr_time_sec) > Num(cleared.next_toggle_time)
                toggled == [cleared EXCEPT
                               !.toggle_state = ~cleared.toggle_state,
                               !.is_rising = ~cleared.toggle_state,
                               !.is_falling = ~(~cleared.toggle_state)]
            IN  IF changed_this_frame
                THEN set_next_toggle_time(toggled, None)
                ELSE Ok(cleared)

\* __init__ seeding the schedule at time zero and then catching up with
\* the registry's time, instead of seeding it at the registry's time.
Single_Square_Wave_Timer_from_zero(period_sec, curr_time_sec) ==
    update_timer(
        update_timer([toggle_period_sec |-> (period_sec * TicksPerSec) \div 2,
                      next_toggle_time  |-> None,
                      toggle_state      |-> FALSE,
                      is_rising         |-> FALSE,
                      is_falling        |-> FALSE],
                     Float(0)).self,
        curr_time_sec)

\* _Single_Square_Wave_Timer.__init__(period_sec, curr_time_sec)
Single_Square_Wave_Timer(period_sec, curr_time_sec) ==
    update_timer([toggle_period_sec |-> (period_sec * TicksPerSec) \div 2,
                  next_toggle_time  |-> None,
                  toggle_state      |-> FALSE,
                  is_rising         |-> FALSE,
                  is_falling        |-> FALSE],
                 curr_time_sec)

timer_is_high(self) == self.toggle_state
timer_is_rising(self) == self.is_rising
timer_is_falling(self) == self.is_falling

(* ---------------------------------------------------- Square_Wave_Timer *)

\* Square_Wave_Timer.__init__
NewRegistry == [timers |-> [p \in {} |-> None], curr_time_sec |-> None]

\* update with the return of line 30 inside the loop: one timer only is
\* updated.
update_returns_in_loop(reg, t) ==
    [timers |-> [p \in DOMAIN reg.timers |->
                     IF \A q \in DOMAIN reg.timers : p <= q
                     THEN update_timer(reg.timers[p], Float(t)).self
                     ELSE reg.timers[p]],
     curr_time_sec |-> Float(t)]

\* Square_Wave_Timer.update(curr_time_sec)
update(reg, t) ==
    [timers |-> [p \in DOMAIN reg.timers |->
                     update_timer(reg.timers[p], Float(t)).self],
     curr_time_sec |-> Float(t)]

\* _create_missing_timer without the membership test of line 45: every
\* query builds a new timer.
create_missing_timer_always(reg, period_sec) ==
    LET new == Single_Square_Wave_Timer(period_sec, reg.curr_time_sec)
    IN  IF new.exc # "none"
        THEN [exc |-> new.exc, reg |-> reg]
        ELSE [exc |-> "none",
              reg |-> [reg EXCEPT !.timers =
                          [p \in DOMAIN reg.timers \cup {period_sec} |->
                              IF p = period_sec THEN new.self
                                                ELSE reg.timers[p]]]]

\* Square_Wave_Timer._create_missing_timer(period_sec)
create_missing_timer(reg, period_sec) ==
    IF period_sec \notin DOMAIN reg.timers
    THEN LET new == Single_Square_Wave_Timer(period_sec, reg.curr_time_sec)
         IN  IF new.exc # "none"
             THEN [exc |-> new.exc, reg |-> reg]
             ELSE [exc |-> "none",
                   reg |-> [reg EXCEPT !.timers =
                               [p \in DOMAIN reg.timers \cup {period_sec} |->
                                   IF p = period_sec THEN new.self
                                                     ELSE reg.timers[p]]]]
    ELSE [exc |-> "none", reg |-> reg]

\* Square_Wave_Timer.is_high / is_rising / is_falling (period_sec)
query(reg, op, period_sec) ==
    LET made == create_missing_timer(reg, period_sec)
    IN  IF made.exc # "none"
        THEN [exc |-> made.exc, reg |-> made.reg, val |-> FALSE]
        ELSE [exc |-> "none", reg |-> made.reg,
              val |-> CASE op = "is_high" ->
                              timer_is_high(made.reg.timers[period_sec])
                        [] op = "is_rising" ->
                              timer_is_rising(made.reg.timers[period_sec])
                        [] op = "is_falling" ->
                              timer_is_falling(made.reg.timers[period_sec])]

(* ------------------------------------------------------------ the state *)

Reg == [timers |-> timers, curr_time_sec |-> reg_curr_time_sec]

\* What the caller saw of the last call.
Returned(op, period_sec, exc, val) ==
    [op |-> op, period |-> period_sec, exc |-> exc, val |-> val]

\* What an observer records of a timer when it is created at time seed.
Born(seed, timer) ==
    [seed |-> seed, transitions |-> 0, solo |-> timer,
     last_rise |-> None, last_fall |-> None]

\* What an observer records of a timer across one update at time t.
Observed(h, before, after, t) ==
    [seed        |-> h.seed,
     transitions |-> h.transitions +
                        (IF after.toggle_state # before.toggle_state
                         THEN 1 ELSE 0),
     solo        |-> update_timer(h.solo, Float(t)).self,
     last_rise   |-> IF after.is_rising THEN Float(t) ELSE h.last_rise,
     last_fall   |-> IF after.is_falling THEN Float(t) ELSE h.last_fall]

Idle ==
    /\ pc = "idle"
    /\ UNCHANGED << pc, time_sec, small_offset, out, pace, recorder, writes >>

Init ==
    /\ timers = NewRegistry.timers
    /\ reg_curr_time_sec = NewRegistry.curr_time_sec
    /\ ret = Returned("new", 0, "none", FALSE)
    /\ hist = [p \in {} |-> None]
    /\ step = 0
    /\ pc = "idle"
    /\ time_sec = 0
    /\ small_offset = 0
    /\ out = {}
    /\ pace = None
    /\ recorder = None
    /\ writes = None

\* A caller's timer.update(t)
DoUpdate(t) ==
    LET after == update(Reg, t)
    IN  /\ timers' = after.timers
        /\ reg_curr_time_sec' = after.curr_time_sec
        /\ ret' = Returned("update", 0, "none", FALSE)
        /\ hist' = [p \in DOMAIN timers |->
                       Observed(hist[p], timers[p], after.timers[p], t)]

\* A caller's timer.is_high(p), timer.is_rising(p) or timer.is_falling(p)
DoQuery(op, period_sec) ==
    LET got == query(Reg, op, period_sec)
    IN  /\ timers' = got.reg.timers
        /\ reg_curr_time_sec' = got.reg.curr_time_sec
        /\ ret' = Returned(op, period_sec, got.exc, got.val)
        /\ hist' = [p \in DOMAIN got.reg.timers |->
                       IF p \in DOMAIN timers THEN hist[p]
                       ELSE Born(reg_curr_time_sec, got.reg.timers[p])]

Asked == IF step = 0 THEN Periods ELSE FixedPeriods

Update ==
    /\ Idle
    /\ \E s \in (IF step = 0 THEN Steps ELSE {step}) :
          LET t == IF reg_curr_time_sec = None THEN s ELSE Num(reg_curr_time_sec) + s
          IN  /\ t <= (IF step = 0 THEN MaxTime ELSE MaxFixedTime)
              /\ DoUpdate(t)
              /\ \A p \in DOMAIN hist' : hist'[p].transitions <= MaxTransitions
    /\ UNCHANGED step

Is_high ==
    /\ Idle
    /\ \E p \in Asked : DoQuery("is_high", p)
    /\ UNCHANGED step

Is_rising ==
    /\ Idle
    /\ \E p \in Asked : DoQuery("is_rising", p)
    /\ UNCHANGED step

Is_falling ==
    /\ Idle
    /\ \E p \in Asked : DoQuery("is_falling", p)
    /\ UNCHANGED step

Next == Update \/ Is_high \/ Is_rising \/ Is_falling

Spec == Init /\ [][Next]_vars

(* ------------------------------------------------- fixed-rate updates *)

\* The caller updates at a fixed distance, as the video loop does with
\* curr_time_sec = k / video_fps.
InitFixed ==
    /\ timers = NewRegistry.timers
    /\ reg_curr_time_sec = NewRegistry.curr_time_sec
    /\ ret = Returned("new", 0, "none", FALSE)
    /\ hist = [p \in {} |-> None]
    /\ step \in FixedSteps
    /\ pc = "idle"
    /\ time_sec = 0
    /\ small_offset = 0
    /\ out = {}
    /\ pace = None
    /\ recorder = None
    /\ writes = None

SpecFixed == InitFixed /\ [][Next]_vars

(* ------------------------------------------------ the __main__ demos *)

Demo1Len == 17
Demo1Period == 10
Demo2Len == 20
Demo2PeriodA == 2
Demo2PeriodB == 4

\* A line of the demo that tests a query: the value the query returned.
Logged(line, val) ==
    [line |-> line,
     t    |-> Num(reg_curr_time_sec),
     val  |-> val]

InitDemo ==
    /\ timers = NewRegistry.timers
    /\ reg_curr_time_sec = NewRegistry.curr_time_sec
    /\ ret = Returned("new", 0, "none", FALSE)
    /\ hist = [p \in {} |-> None]
    /\ step = 0
    /\ pc = "d1_update"
    /\ time_sec = 0
    /\ small_offset = 0
    /\ out = {}
    /\ pace = None
    /\ recorder = None
    /\ writes = None

\* A query made by a demo line: a raised exception ends the program.
DemoQuery(line, op, period_sec, next) ==
    /\ DoQuery(op, period_sec)
    /\ IF ret'.exc # "none"
       THEN pc' = "crashed" /\ out' = out
       ELSE pc' = next /\ out' = out \cup {Logged(line, ret'.val)}

Demo1Update ==
    /\ pc = "d1_update" /\ time_sec < Demo1Len
    /\ DoUpdate(time_sec * TicksPerSec)
    /\ pc' = "d1_rising"
    /\ UNCHANGED << step, time_sec, small_offset, out >>
    /\ UNCHANGED << pace, recorder, writes >>

Demo1Rising ==
    /\ pc = "d1_rising"
    /\ DemoQuery(110, "is_rising", Demo1Period, "d1_falling")
    /\ UNCHANGED << step, time_sec, small_offset >>
    /\ UNCHANGED << pace, recorder, writes >>

Demo1Falling ==
    /\ pc = "d1_falling"
    /\ DemoQuery(112, "is_falling", Demo1Period, "d1_high")
    /\ UNCHANGED << step, time_sec, small_offset >>
    /\ UNCHANGED << pace, recorder, writes >>

Demo1High ==
    /\ pc = "d1_high"
    /\ DemoQuery(114, "is_high", Demo1Period, "d1_low")
    /\ UNCHANGED << step, time_sec, small_offset >>
    /\ UNCHANGED << pace, recorder, writes >>

Demo1Low ==
    /\ pc = "d1_low"
    /\ DemoQuery(116, "is_high", Demo1Period, "d1_update")
    /\ time_sec' = time_sec + 1
    /\ UNCHANGED << step, small_offset >>
    /\ UNCHANGED << pace, recorder, writes >>

\* demo_timer_2 = Square_Wave_Timer()
Demo2New ==
    /\ pc = "d1_update" /\ time_sec = Demo1Len
    /\ timers' = NewRegistry.timers
    /\ reg_curr_time_sec' = NewRegistry.curr_time_sec
    /\ ret' = Returned("new", 0, "none", FALSE)
    /\ hist' = [p \in {} |-> None]
    /\ pc' = "d2_update"
    /\ time_sec' = 0
    /\ small_offset' = 0 - 1
    /\ UNCHANGED << step, out >>
    /\ UNCHANGED << pace, recorder, writes >>

Demo2Update ==
    /\ pc = "d2_update" /\ time_sec < Demo2Len
    /\ DoUpdate(time_sec * TicksPerSec + small_offset)
    /\ pc' = "d2_falling_a"
    /\ UNCHANGED << step, time_sec, small_offset, out >>
    /\ UNCHANGED << pace, recorder, writes >>

Demo2FallingA ==
    /\ pc = "d2_falling_a"
    /\ DemoQuery(126, "is_falling", Demo2PeriodA, "d2_falling_b")
    /\ UNCHANGED << step, time_sec, small_offset >>
    /\ UNCHANGED << pace, recorder, writes >>

Demo2FallingB ==
    /\ pc = "d2_falling_b"
    /\ DemoQuery(128, "is_falling", Demo2PeriodB, "d2_update")
    /\ IF small_offset < 0
       THEN small_offset' = 1 /\ time_sec' = time_sec
       ELSE small_offset' = 0 - 1 /\ time_sec' = time_sec + 1
    /\ UNCHANGED step
    /\ UNCHANGED << pace, recorder, writes >>

Demo2Done ==
    /\ pc = "d2_update" /\ time_sec = Demo2Len
    /\ pc' = "done"
    /\ UNCHANGED << timers, reg_curr_time_sec, ret, hist, step, time_sec,
                    small_offset, out >>
    /\ UNCHANGED << pace, recorder, writes >>

NextDemo ==
    \/ Demo1Update \/ Demo1Rising \/ Demo1Falling \/ Demo1High \/ Demo1Low
    \/ Demo2New \/ Demo2Update \/ Demo2FallingA \/ Demo2FallingB \/ Demo2Done

SpecDemo == InitDemo /\ [][NextDemo]_vars

(* ------------------------------------------------------ the properties *)

\* The step is a caller's update (a query leaves another ret behind).
IsUpdateStep == ret'.op = "update"

Flipped(p) == timers'[p].toggle_state # timers[p].toggle_state

\* C1: for a positive period, an update flips the state at most once, and
\* flips it if and only if the update time is strictly greater than the
\* deadline stored before the update; a time equal to the deadline does
\* not flip it.
C1_FlipsIffPastDeadline ==
    [][IsUpdateStep =>
          \A p \in DOMAIN timers : p > 0 =>
             /\ Flipped(p) <=> Num(reg_curr_time_sec') >
                                   Num(timers[p].next_toggle_time)
             /\ hist'[p].transitions - hist[p].transitions \in {0, 1}
             /\ Num(reg_curr_time_sec') = Num(timers[p].next_toggle_time)
                   => ~Flipped(p)]_vars

\* An update at exactly one timer's deadline, which left it alone, while it
\* flipped another timer whose deadline it had passed.
C1_Witness ==
    /\ ret.op = "update"
    /\ \E p \in DOMAIN timers :
          /\ p > 0
          /\ reg_curr_time_sec = timers[p].next_toggle_time
          /\ ~timers[p].is_rising /\ ~timers[p].is_falling
    /\ \E q \in DOMAIN timers : q > 0 /\ timers[q].is_rising

\* C2: an update that flips the state leaves exactly one edge flag true,
\* rising iff the new state is high and falling iff it is low; an update
\* that does not flip it leaves both false; rising and falling are never
\* both true.
C2_EdgeFlags ==
    /\ [](\A p \in DOMAIN timers :
             ~(timers[p].is_rising /\ timers[p].is_falling))
    /\ [][IsUpdateStep =>
            \A p \in DOMAIN timers :
               IF Flipped(p)
               THEN /\ timers'[p].is_rising = timers'[p].toggle_state
                    /\ timers'[p].is_falling = ~timers'[p].toggle_state
               ELSE ~timers'[p].is_rising /\ ~timers'[p].is_falling]_vars

\* After an update one timer shows a rising edge, another a falling edge
\* and a third, which had shown an edge before, shows none.
C2_Witness ==
    /\ ret.op = "update"
    /\ \E p, q, r \in DOMAIN timers :
          /\ timers[p].is_rising /\ ~timers[p].is_falling
          /\ timers[q].is_falling /\ ~timers[q].is_rising
          /\ ~timers[r].is_rising /\ ~timers[r].is_falling
          /\ hist[r].transitions > 0

HalfPeriodTimes2(p) == p * TicksPerSec

\* C3: for a positive period the deadline is the seed time plus
\* (1 + transitions so far) half periods; a transition advances it by one
\* half period from its previous value however late the update is, and an
\* update without transition leaves it alone.  Period 10 seeded at 0 and
\* updated at 12 has made one transition and has deadline 10.
C3_PhaseStable ==
    /\ [](\A p \in DOMAIN timers : p > 0 =>
             2 * (Num(timers[p].next_toggle_time) - Num(hist[p].seed))
                = (1 + hist[p].transitions) * HalfPeriodTimes2(p))
    /\ [][IsUpdateStep =>
            \A p \in DOMAIN timers : p > 0 =>
               2 * (Num(timers'[p].next_toggle_time)
                      - Num(timers[p].next_toggle_time))
                 = IF Flipped(p) THEN HalfPeriodTimes2(p) ELSE 0]_vars
    /\ LET seeded == Single_Square_Wave_Timer(10, Float(0)).self
           late == update_timer(seeded, Float(12 * TicksPerSec)).self
       IN  /\ seeded.next_toggle_time = Float(5 * TicksPerSec)
           /\ late.toggle_state /\ late.is_rising
           /\ late.next_toggle_time = Float(10 * TicksPerSec)

\* A timer that made its transition so late that its new deadline is
\* already behind the clock.
C3_Witness ==
    \E p \in DOMAIN timers :
       /\ p > 0
       /\ hist[p].transitions = 1
       /\ timers[p].is_rising
       /\ Num(reg_curr_time_sec) > Num(timers[p].next_toggle_time)

Queries == {"is_high", "is_rising", "is_falling"}

\* The line of out that the demo logged at whole second sec for a line.
AtSecond(e, line, sec) == e.line = line /\ e.t = sec * TicksPerSec

\* C4: in the first demo (updates at t = 0..16, period 10 queried after
\* each) is_rising is true at t = 6 and t = 16 only, is_falling at t = 11
\* only, and is_high is false for t = 0..5, true for 6..10, false for 11..15.
C4_DemoEdges ==
    /\ \A e \in out :
          /\ e.line = 110 =>
                (e.val <=> e.t \in {6 * TicksPerSec, 16 * TicksPerSec})
          /\ e.line = 112 => (e.val <=> e.t = 11 * TicksPerSec)
          /\ (e.line = 114 /\ e.t <= 15 * TicksPerSec) =>
                (e.val <=> e.t \in {k * TicksPerSec : k \in 6..10})
    /\ pc \in {"d1_rising", "d1_falling", "d1_high", "d1_low"} =>
          /\ Demo1Period \in DOMAIN timers => hist[Demo1Period].seed = Float(0)
          /\ (time_sec > 0 \/ pc # "d1_rising") => Demo1Period \in DOMAIN timers
    /\ pc \in {"d2_update", "d2_falling_a", "d2_falling_b", "done"} =>
          \A sec \in 0..(Demo1Len - 1) : \A line \in {110, 112, 114} :
             \E e \in out : AtSecond(e, line, sec)

\* The first demo has run to its end and reported the rising edge of t = 16.
C4_Witness ==
    /\ pc = "d2_update"
    /\ [line |-> 110, t |-> 16 * TicksPerSec, val |-> TRUE] \in out
    /\ [line |-> 112, t |-> 11 * TicksPerSec, val |-> TRUE] \in out
    /\ [line |-> 114, t |-> 10 * TicksPerSec, val |-> TRUE] \in out

\* C5: a query on a registry that was never updated raises no error and
\* returns the defaults.
C5_QueryBeforeUpdateIsTotal ==
    (ret.op \in Queries /\ reg_curr_time_sec = None) =>
        (ret.exc = "none" /\ ret.val = FALSE /\ ret.period \in DOMAIN timers)

\* C6: the first query for a period <= 0 fails with InvalidArgument and adds
\* no timer to the registry (stated of a registry that has been updated).
C6_NonPositivePeriodRejected ==
    (ret.op \in Queries /\ ret.period <= 0 /\ reg_curr_time_sec # None) =>
        (ret.exc = "InvalidArgument" /\ ret.period \notin DOMAIN timers)

\* The step is the query that creates the timer of period p.
Creates(p) == p \notin DOMAIN timers /\ p \in DOMAIN timers'

\* C7: the first query for an unseen positive period P at registry time T
\* returns false and leaves a low timer without edges whose deadline is
\* T + P/2; nothing is replayed: the timer stays low until the first later
\* update whose time exceeds T + P/2, which is its first rising edge.
C7_LazyCreation ==
    /\ [][\A p \in Periods :
            (p > 0 /\ p \notin DOMAIN timers /\ reg_curr_time_sec # None
                /\ ret'.op \in Queries /\ ret'.period = p
                /\ << ret', timers' >> # << ret, timers >>) =>
               /\ Creates(p)
               /\ ret'.exc = "none" /\ ret'.val = FALSE
               /\ ~timers'[p].toggle_state
               /\ ~timers'[p].is_rising /\ ~timers'[p].is_falling
               /\ 2 * (Num(timers'[p].next_toggle_time)
                         - Num(reg_curr_time_sec)) = HalfPeriodTimes2(p)
               /\ hist'[p].seed = reg_curr_time_sec]_vars
    /\ [](\A p \in DOMAIN timers : (p > 0 /\ hist[p].transitions = 0) =>
             /\ ~timers[p].toggle_state
             /\ ~timers[p].is_rising /\ ~timers[p].is_falling
             /\ 2 * (Num(reg_curr_time_sec) - Num(hist[p].seed))
                   <= HalfPeriodTimes2(p))
    /\ [][IsUpdateStep =>
            \A p \in DOMAIN timers : (p > 0 /\ hist[p].transitions = 0) =>
               IF 2 * (Num(reg_curr_time_sec') - Num(hist[p].seed))
                     > HalfPeriodTimes2(p)
               THEN timers'[p].is_rising /\ timers'[p].toggle_state
               ELSE ~timers'[p].is_rising /\ ~timers'[p].toggle_state]_vars

\* A timer created so late that one seeded at time zero would already have
\* toggled, now showing its first rising edge.
C7_Witness ==
    \E p \in DOMAIN timers :
       /\ p > 0
       /\ 2 * Num(hist[p].seed) > HalfPeriodTimes2(p)
       /\ hist[p].transitions = 1
       /\ timers[p].is_rising

\* C8: every timer of the registry is at every moment exactly what a timer
\* of its period would be if it were created alone at the same time and
\* updated with the same times; a query, creating a timer or not, changes
\* no other period's timer.
C8_Independent ==
    /\ [](\A p \in DOMAIN timers : timers[p] = hist[p].solo)
    /\ [][ret'.op \in Queries =>
            \A q \in DOMAIN timers : timers'[q] = timers[q]]_vars
    /\ [][IsUpdateStep => DOMAIN timers' = DOMAIN timers]_vars

\* Two positive periods created at different times, both having toggled, one
\* showing an edge after the last update and the other not.
C8_Witness ==
    /\ ret.op = "update"
    /\ \E p, q \in DOMAIN timers :
          /\ 0 < p /\ p < q
          /\ hist[p].seed # hist[q].seed
          /\ hist[p].transitions >= 2 /\ hist[q].transitions >= 1
          /\ timers[p].is_falling
          /\ ~timers[q].is_rising /\ ~timers[q].is_falling

\* C9 as stated: in the first demo is_high(10) is still false at t = 16.
C9_LowAtSixteen ==
    \A e \in out :
       (AtSecond(e, 114, 16) \/ AtSecond(e, 116, 16)) => e.val = FALSE

\* C9 as amended: in the first demo is_high(10) is true at t = 16, the
\* update at t = 16 having passed the deadline 15 (a rising edge), while it
\* is false for t = 11..15.
C9_HighAtSixteen ==
    /\ \A e \in out :
          /\ (AtSecond(e, 114, 16) \/ AtSecond(e, 116, 16)) => e.val = TRUE
          /\ e.line \in {114, 116} /\ e.t \in {k * TicksPerSec : k \in 11..15}
                => e.val = FALSE
    /\ pc \in {"d2_update", "d2_falling_a", "d2_falling_b", "done"} =>
          \E e \in out : AtSecond(e, 114, 16)

\* The demo has queried is_high(10) at t = 16 and found it true.
C9_Witness ==
    /\ [line |-> 114, t |-> 16 * TicksPerSec, val |-> TRUE] \in out
    /\ [line |-> 110, t |-> 16 * TicksPerSec, val |-> TRUE] \in out
    /\ [line |-> 114, t |-> 15 * TicksPerSec, val |-> FALSE] \in out

\* The half period of p is a whole number of update distances.
StepDividesHalfPeriod(p) == step > 0 /\ HalfPeriodTimes2(p) % (2 * step) = 0

\* C10: under updates at a fixed distance that divides the half period,
\* consecutive falling edges are exactly one period apart, so are
\* consecutive rising edges, and every falling edge comes exactly half a
\* period after the rising edge before it (each high phase lasts P/2).
C10_Periodic ==
    [][IsUpdateStep =>
          \A p \in DOMAIN timers : StepDividesHalfPeriod(p) =>
             /\ (timers'[p].is_rising /\ hist[p].last_rise # None) =>
                   Num(reg_curr_time_sec') - Num(hist[p].last_rise)
                      = p * TicksPerSec
             /\ (timers'[p].is_falling /\ hist[p].last_fall # None) =>
                   Num(reg_curr_time_sec') - Num(hist[p].last_fall)
                      = p * TicksPerSec
             /\ timers'[p].is_falling =>
                   /\ hist[p].last_rise # None
                   /\ 2 * (Num(reg_curr_time_sec') - Num(hist[p].last_rise))
                         = p * TicksPerSec
             /\ timers'[p].toggle_state =>
                   /\ hist'[p].last_rise # None
                   /\ 2 * (Num(reg_curr_time_sec') - Num(hist'[p].last_rise))
                         < p * TicksPerSec]_vars

\* A timer showing its second falling edge, under an update distance
\* smaller than its half period.
C10_Witness ==
    \E p \in DOMAIN timers :
       /\ StepDividesHalfPeriod(p)
       /\ 2 * step < HalfPeriodTimes2(p)
       /\ hist[p].transitions = 4
       /\ timers[p].is_falling

\* The value a query op reads from a timer.
Reads(op, timer) ==
    CASE op = "is_high" -> timer.toggle_state
      [] op = "is_rising" -> timer.is_rising
      [] op = "is_falling" -> timer.is_falling

\* C11: once the registry has been advanced, a query returns the field it
\* reads and changes the state, flags and deadline of no timer that exists;
\* a query that follows another query of the same kind and period, with no
\* update between them, returns the same value, also when the earlier one
\* created the timer.
C11_QueriesIdempotent ==
    [][(ret'.op \in Queries /\ reg_curr_time_sec # None) =>
          /\ ret'.exc = "none"
          /\ reg_curr_time_sec' = reg_curr_time_sec
          /\ \A q \in DOMAIN timers : timers'[q] = timers[q]
          /\ ret'.period \in DOMAIN timers'
          /\ ret'.val = Reads(ret'.op, timers'[ret'.period])
          /\ (ret.op = ret'.op /\ ret.period = ret'.period) =>
                ret'.val = ret.val
          /\ (ret.op \in Queries /\ ret.period = ret'.period) =>
                ret.val = Reads(ret.op, timers'[ret.period])]_vars

\* A second query in a row for a period whose timer shows a falling edge:
\* is_falling answers true after an earlier query of the same period.
C11_Witness ==
    /\ ret.op = "is_falling" /\ ret.val
    /\ ret.period > 0
    /\ hist[ret.period].transitions >= 2
    /\ timers[ret.period].is_falling /\ ~timers[ret.period].toggle_state

(* ------------------------------------- updates whose distances are kept *)

\* Distances (in ticks) between update times, where they are recorded.
PaceSteps == {0, 50, 100, 150}

Larger(a, b) == IF a >= b THEN a ELSE b

InitPace ==
    /\ timers = NewRegistry.timers
    /\ reg_curr_time_sec = NewRegistry.curr_time_sec
    /\ ret = Returned("new", 0, "none", FALSE)
    /\ hist = [p \in {} |-> None]
    /\ step = 0
    /\ pc = "idle"
    /\ time_sec = 0
    /\ small_offset = 0
    /\ out = {}
    /\ pace = [p \in {} |-> None]
    /\ recorder = None
    /\ writes = None

\* timer.update(t), the caller noting how far t is from the time before.
PacedUpdate ==
    /\ pc = "idle"
    /\ \E s \in PaceSteps :
          LET t == IF reg_curr_time_sec = None THEN s
                   ELSE Num(reg_curr_time_sec) + s
          IN  /\ t <= MaxTime
              /\ DoUpdate(t)
              /\ pace' = [p \in DOMAIN timers |->
                            [max_step  |-> Larger(pace[p].max_step, s),
                             last_step |-> Float(s)]]
    /\ UNCHANGED << step, pc, time_sec, small_offset, out, recorder, writes >>

\* a query for a positive period
PacedQuery ==
    /\ pc = "idle"
    /\ \E p \in FixedPeriods : \E op \in Queries : DoQuery(op, p)
    /\ pace' = [p \in DOMAIN timers' |->
                  IF p \in DOMAIN pace THEN pace[p]
                  ELSE [max_step |-> 0, last_step |-> None]]
    /\ UNCHANGED << step, pc, time_sec, small_offset, out, recorder, writes >>

NextPace == PacedUpdate \/ PacedQuery

SpecPace == InitPace /\ [][NextPace]_vars

\* Every update the timer of period p has seen came at most half a period
\* after the update before it.
KeptPace(p) == 2 * pace[p].max_step <= HalfPeriodTimes2(p)

\* C14: a timer of positive period whose updates have come at most half a
\* period apart has, after every update, a deadline that is not before the
\* update time; an update that repeats the time of the update before it
\* does not flip such a timer.
C14_DeadlineNotBehind ==
    /\ [](\A p \in DOMAIN timers : KeptPace(p) =>
             Num(timers[p].next_toggle_time) >= Num(reg_curr_time_sec))
    /\ [][(IsUpdateStep /\ reg_curr_time_sec' = reg_curr_time_sec) =>
            \A p \in DOMAIN timers : KeptPace(p) => ~Flipped(p)]_vars

\* A timer updated half a period at a time, which toggled at an update that
\* landed exactly on its new deadline, after that update was repeated.
C14_Witness ==
    /\ ret.op = "update"
    /\ \E p \in DOMAIN timers :
          /\ 2 * pace[p].max_step = HalfPeriodTimes2(p)
          /\ pace[p].last_step = Float(0)
          /\ hist[p].transitions >= 1
          /\ timers[p].next_toggle_time = reg_curr_time_sec
          /\ ~timers[p].is_rising /\ ~timers[p].is_falling

(* -------------------------------------- updates that keep moving forward *)

ForwardSteps == Steps \ {0}

MinStep == CHOOSE s \in ForwardSteps : \A u \in ForwardSteps : s <= u

\* timer.update(t) with t greater than the time before, as in the video loop
Advance ==
    /\ Idle
    /\ \E s \in ForwardSteps :
          LET t == IF reg_curr_time_sec = None THEN s
                   ELSE Num(reg_curr_time_sec) + s
          IN  t <= MaxTime /\ DoUpdate(t)
    /\ UNCHANGED step

\* a query for a positive period
AskPositive ==
    /\ Idle
    /\ \E p \in FixedPeriods : \E op \in Queries : DoQuery(op, p)
    /\ UNCHANGED step

NextLive == Advance \/ AskPositive

\* The loop calls update on every iteration: updates keep coming.
SpecLive == Init /\ [][NextLive]_vars /\ WF_vars(Advance)

\* Another update is still to come, and the last update of the horizon is
\* past the deadline of the timer of period p.
WithinHorizon(p) ==
    /\ reg_curr_time_sec # None
    /\ Num(reg_curr_time_sec) + MinStep <= MaxTime
    /\ Num(timers[p].next_toggle_time) + MinStep <= MaxTime

\* C13: while the update times keep growing, every timer of positive period
\* makes another transition whatever number it has made; its transitions
\* alternate, rising first: the odd ones are rising edges, the even ones
\* falling edges.
C13_NeverStops ==
    /\ \A p \in FixedPeriods : \A n \in 0..MaxTransitions :
          (p \in DOMAIN timers /\ hist[p].transitions = n /\ WithinHorizon(p))
             ~> (p \in DOMAIN timers /\ hist[p].transitions = n + 1)
    /\ [][IsUpdateStep =>
            \A p \in DOMAIN timers : Flipped(p) =>
               /\ timers'[p].is_rising <=> hist[p].transitions % 2 = 0
               /\ timers'[p].is_falling <=> hist[p].transitions % 2 = 1]_vars

\* A timer that has risen, fallen and, at the last update, risen again.
C13_Witness ==
    /\ ret.op = "update"
    /\ \E p \in DOMAIN timers :
          /\ hist[p].transitions = 3
          /\ timers[p].is_rising /\ timers[p].toggle_state

(* ------------------------------------------------------- Video_Recorder *)

\* _tl_count and _tl_increment are held as whole multiples of
\* 1 / max(1, timelapse_factor), the field tl_unit being that maximum: the
\* counter is exact.  A codec or a path is a string, held as << string >>
\* where None is possible.

\* Largest number of write calls followed.
MaxWrites == 7

\* timelapse_factor values given to the constructor
TimelapseFactors == {0, 1, 2, 3}

\* codec values given to the constructor
Codecs == {None, << "XVID" >>, << "H264X" >>}

Returns(self, val) == [exc |-> "none", self |-> self, val |-> val]
Throws(e, self) == [exc |-> e, self |-> self, val |-> FALSE]

\* Video_Recorder._figure_out_encoding(); encode_ok is what
\* find_valid_recording_parameters reports of the machine's codecs.
figure_out_encoding(self, encode_ok) ==
    IF ~self.enabled THEN Returns(self, FALSE)
    ELSE IF self.codec = None
         THEN IF ~encode_ok THEN Throws("IOError", self)
              ELSE Returns([self EXCEPT !.codec = << "avc1" >>,
                                        !.actual_save_path = << "save.mp4" >>],
                           FALSE)
         ELSE IF Len(self.codec[1]) # 4 THEN Throws("ValueError", self)
              ELSE Returns([self EXCEPT !.actual_save_path = << "save.avi" >>],
                           FALSE)

\* Video_Recorder.__init__(save_path, recording_fps, timelapse_factor,
\*                         enabled, codec)
Video_Recorder(timelapse_factor, enabled, codec, encode_ok) ==
    LET unit == IF timelapse_factor >= 1 THEN timelapse_factor ELSE 1
        self == [enabled          |-> enabled,
                 codec            |-> codec,
                 tl_factor        |-> timelapse_factor,
                 vwriter          |-> None,
                 actual_save_path |-> None,
                 tl_unit          |-> unit,
                 tl_increment     |-> 1,
                 tl_count         |-> 1 * unit,
                 tl_enabled       |-> (timelapse_factor - 1) * 100 > 1]
    IN  IF timelapse_factor * 100000 < 99999
        THEN Throws("ValueError", self)
        ELSE figure_out_encoding(self, encode_ok)

\* Video_Recorder.is_open()
is_open(self) ==
    IF self.vwriter = None THEN FALSE ELSE self.vwriter[1].opened

\* Video_Recorder.get_save_path()
get_save_path(self) ==
    IF ~self.enabled \/ self.actual_save_path = None
    THEN "None"
    ELSE self.actual_save_path[1]

\* Video_Recorder.release()
release(self) ==
    IF self.vwriter # None
    THEN [self EXCEPT !.vwriter = << [opened |-> FALSE] >>]
    ELSE self

\* Video_Recorder._create_video_writer(frame_shape); opens is whether the
\* cv2.VideoWriter made here reports isOpened().
create_video_writer(self, opens) ==
    IF self.actual_save_path = None
    THEN Throws("TypeError", self)
    ELSE Returns([self EXCEPT !.vwriter = << [opened |-> opens] >>], FALSE)

\* write without the bail of lines 135-136 for a disabled recorder.
write_ignores_enabled(self, opens) ==
    LET counted == [self EXCEPT !.tl_count = self.tl_count + self.tl_increment]
        skip == self.tl_enabled /\ counted.tl_count < 1 * self.tl_unit
        due == IF self.tl_enabled
               THEN [counted EXCEPT !.tl_count = counted.tl_count - 1 * self.tl_unit]
               ELSE self
    IN  IF skip THEN Returns(counted, FALSE)
        ELSE IF due.vwriter # None
             THEN Returns(due, TRUE)
             ELSE LET made == create_video_writer(due, opens)
                  IN  IF made.exc # "none" THEN made
                      ELSE Returns(made.self, TRUE)

\* write with the comparison of line 143 written <= .
write_skips_on_equal(self, opens) ==
    IF ~self.enabled THEN Returns(self, FALSE)
    ELSE
    LET counted == [self EXCEPT !.tl_count = self.tl_count + self.tl_increment]
        skip == self.tl_enabled /\ counted.tl_count <= 1 * self.tl_unit
        due == IF self.tl_enabled
               THEN [counted EXCEPT !.tl_count = counted.tl_count - 1 * self.tl_unit]
               ELSE self
    IN  IF skip THEN Returns(counted, FALSE)
        ELSE IF due.vwriter # None
             THEN Returns(due, TRUE)
             ELSE LET made == create_video_writer(due, opens)
                  IN  IF made.exc # "none" THEN made
                      ELSE Returns(made.self, TRUE)

\* Video_Recorder.write(frame)
write(self, opens) ==
    IF ~self.enabled THEN Returns(self, FALSE)
    ELSE
    LET counted == [self EXCEPT !.tl_count = self.tl_count + self.tl_increment]
        skip == self.tl_enabled /\ counted.tl_count < 1 * self.tl_unit
        due == IF self.tl_enabled
               THEN [counted EXCEPT !.tl_count = counted.tl_count - 1 * self.tl_unit]
               ELSE self
    IN  IF skip THEN Returns(counted, FALSE)
        ELSE IF due.vwriter # None
             THEN Returns(due, TRUE)
             ELSE LET made == create_video_writer(due, opens)
                  IN  IF made.exc # "none" THEN made
                      ELSE Returns(made.self, TRUE)

\* What the caller has seen of the recorder so far.
Seen(w, got) ==
    [calls    |-> w.calls + 1,
     written  |-> w.written + (IF got.exc = "none" /\ got.val THEN 1 ELSE 0),
     raised   |-> got.exc # "none",
     last     |-> got.val,
     released |-> w.released]

TimerVars == << timers, reg_curr_time_sec, ret, hist, step, pc, time_sec,
               small_offset, out, pace >>

\* vwrite = Video_Recorder(ARG_OUTPUT, video_fps, ...), having raised nothing
InitRec ==
    /\ timers = NewRegistry.timers
    /\ reg_curr_time_sec = NewRegistry.curr_time_sec
    /\ ret = Returned("new", 0, "none", FALSE)
    /\ hist = [p \in {} |-> None]
    /\ step = 0
    /\ pc = "idle"
    /\ time_sec = 0
    /\ small_offset = 0
    /\ out = {}
    /\ pace = None
    /\ \E f \in TimelapseFactors : \E en \in BOOLEAN : \E c \in Codecs :
          \E encode_ok \in BOOLEAN :
             LET made == Video_Recorder(f, en, c, encode_ok)
             IN  made.exc = "none" /\ recorder = made.self
    /\ writes = [calls |-> 0, written |-> 0, raised |-> FALSE,
                 last |-> FALSE, released |-> FALSE]

\* vwrite.write(display_frame)
Write ==
    /\ writes.calls < MaxWrites /\ ~writes.raised
    /\ \E opens \in BOOLEAN :
          LET got == write(recorder, opens)
          IN  /\ recorder' = got.self
              /\ writes' = Seen(writes, got)
    /\ UNCHANGED TimerVars

\* vwrite.release()
Release ==
    /\ ~writes.raised
    /\ recorder' = release(recorder)
    /\ writes' = [writes EXCEPT !.released = TRUE]
    /\ UNCHANGED TimerVars

NextRec == Write \/ Release

SpecRec == InitRec /\ [][NextRec]_vars

\* C12: a recorder constructed with enabled = False never records: every
\* write has returned False (and raised nothing), no video writer exists,
\* is_open() is False and get_save_path() is "None".
C12_DisabledNeverRecords ==
    ~recorder.enabled =>
       /\ writes.written = 0 /\ ~writes.last /\ ~writes.raised
       /\ recorder.vwriter = None
       /\ is_open(recorder) = FALSE
       /\ get_save_path(recorder) = "None"

\* A disabled recorder, given a codec, after three writes and a release.
C12_Witness ==
    /\ ~recorder.enabled
    /\ recorder.codec # None
    /\ writes.calls = 3
    /\ writes.released

====
